---- MODULE Spec2Model ----
(***************************************************************************)
(* Model of the two construct modules of cdk-constructs:                   *)
(*                                                                         *)
(*   ca_cdk_constructs/eks/external_secrets/external_secret.py             *)
(*       ExternalSecretSource, ExternalSecret                              *)
(*   cdk_constructs/protected_cloudfront.py                                *)
(*       ProtectedCloudfrontStack                                          *)
(*                                                                         *)
(* Python str values are sequences of one-character strings, so that       *)
(* str.split and f-string formatting are computed, not assumed.            *)
(* A dict is the sequence of its (key, value) items in insertion order,    *)
(* with pairwise distinct keys.                                            *)
(***************************************************************************)
EXTENDS Integers, Sequences, FiniteSets, TLC

\* ------------------------------------------------------------------------
\* Bounds of the model
\* ------------------------------------------------------------------------
MaxKeyLen == 2
MaxMappings == 2
MaxDomainLen == 3
MaxEnvNameLen == 1

\* ------------------------------------------------------------------------
\* Python values
\* ------------------------------------------------------------------------
\* All str values of length at most n over an alphabet.
Strings(alphabet, n) == UNION {[1..k -> alphabet] : k \in 0..n}

\* An attribute or local that has not been assigned yet.
Null == [null |-> TRUE]

\* Truthiness of a str: the empty string is falsy.
Truthy(v) == Len(v) > 0

\* str.split(sep) for a one-character separator.
RECURSIVE split(_, _)
split(s, sep) ==
    IF \A i \in 1..Len(s) : s[i] # sep
    THEN <<s>>
    ELSE LET i == CHOOSE i \in 1..Len(s) :
                      s[i] = sep /\ \A j \in 1..(i - 1) : s[j] # sep
         IN  <<SubSeq(s, 1, i - 1)>> \o split(SubSeq(s, i + 1, Len(s)), sep)

\* All dicts over the given keys and values with at most n items.
Dicts(keys, vals, n) ==
    {d \in UNION {[1..k -> keys \X vals] : k \in 0..n} :
        \A i, j \in 1..Len(d) : i # j => d[i][1] # d[j][1]}

\* ------------------------------------------------------------------------
\* external_secret.py
\* ------------------------------------------------------------------------
VARIABLES es_pc, secret_source, es_args, k8s_secret_name_attr, resource, es_ret

es_vars == <<es_pc, secret_source, es_args, k8s_secret_name_attr, resource, es_ret>>

\* Inputs
SourceKeys == Strings({"K", "."}, MaxKeyLen)
\* Target keys: the empty one, and one that itself contains a dot.
TargetKeys == {<<>>, <<"T", ".", "U">>}
SecretMappings == Dicts(SourceKeys, TargetKeys, MaxMappings)
SourceSecrets == {<<>>, <<"s">>}
\* A DNS-compliant name, the empty name, and a name DNS does not allow.
K8sSecretNames == {<<"a", "p", "p">>, <<>>, <<"A", "_">>}
RefreshIntervals == {<<>>, <<"5", "m">>}
\* The refresh_interval keyword argument: absent, or one value.
RefreshIntervalArgs == {<<>>} \cup {<<r>> : r \in RefreshIntervals}
StoreNames == {<<"v">>}

\* refresh_interval: str = "1h"
DefaultRefreshInterval30m == <<"3", "0", "m">>
DefaultRefreshInterval == <<"1", "h">>

\* The attrs-generated __init__ of ExternalSecretSource.
ExternalSecretSource(source_secret, k8s_secret_name, secret_mappings, refresh_arg) ==
    [source_secret |-> source_secret,
     k8s_secret_name |-> k8s_secret_name,
     secret_mappings |-> secret_mappings,
     refresh_interval |-> IF Len(refresh_arg) = 0
                          THEN DefaultRefreshInterval
                          ELSE refresh_arg[1]]

\* secret_key=v or str(k).split(".")[-1]
SecretKeyFirstSegment(k, v) ==
    IF Truthy(v) THEN v ELSE split(k, ".")[1]
SecretKey(k, v) ==
    IF Truthy(v) THEN v ELSE LET parts == split(k, ".") IN parts[Len(parts)]

\* ExternalSecretV1Beta1SpecDataRemoteRef(key=..., property=k)
RemoteRefLastSegment(src, k) ==
    [key |-> src.source_secret,
     property |-> LET parts == split(k, ".") IN parts[Len(parts)]]
RemoteRef(src, k) ==
    [key |-> src.source_secret, property |-> k]

\* The list comprehension over secret_mappings.items()
SpecData(src) ==
    [i \in 1..Len(src.secret_mappings) |->
        LET k == src.secret_mappings[i][1]
            v == src.secret_mappings[i][2]
        IN  [remote_ref |-> RemoteRef(src, k), secret_key |-> SecretKey(k, v)]]

\* ExternalSecretV1Beta1SpecTarget(name=secret_source.k8s_secret_name)
SpecTargetFromSource(src) == [name |-> src.source_secret]
SpecTarget(src) == [name |-> src.k8s_secret_name]

\* ExternalSecretV1Beta1Spec(...)
ExternalSecretV1Beta1Spec(store_name, src) ==
    [secret_store_ref |-> [name |-> store_name, kind |-> "SecretStore"],
     refresh_interval |-> src.refresh_interval,
     target |-> SpecTarget(src),
     data |-> SpecData(src)]

ESInit ==
    /\ es_pc = "start"
    /\ secret_source = Null
    /\ es_args = Null
    /\ k8s_secret_name_attr = Null
    /\ resource = Null
    /\ es_ret = Null

\* The caller builds the ExternalSecretSource.
NewExternalSecretSource ==
    /\ es_pc = "start"
    /\ \E s \in SourceSecrets, n \in K8sSecretNames,
          m \in SecretMappings, r \in RefreshIntervalArgs :
          /\ secret_source' = ExternalSecretSource(s, n, m, r)
          /\ es_args' = [refresh_interval |-> r]
    /\ es_pc' = "source"
    /\ UNCHANGED <<k8s_secret_name_attr, resource, es_ret>>

\* ExternalSecret.__init__
ExternalSecretInit ==
    /\ es_pc = "source"
    /\ \E store_name \in StoreNames :
          resource' = [id |-> "Resource",
                       spec |-> ExternalSecretV1Beta1Spec(store_name, secret_source)]
    /\ k8s_secret_name_attr' = secret_source.k8s_secret_name
    /\ es_pc' = "built"
    /\ UNCHANGED <<secret_source, es_args, es_ret>>

\* ExternalSecret.k8s_secret_name (property)
k8s_secret_name ==
    /\ es_pc = "built"
    /\ es_ret' = [value |-> k8s_secret_name_attr]
    /\ UNCHANGED <<es_pc, secret_source, es_args, k8s_secret_name_attr, resource>>

\* ------------------------------------------------------------------------
\* protected_cloudfront.py
\* ------------------------------------------------------------------------
VARIABLES cf_pc, cf_args, context, env_name, stack_name, region,
          access_logs_bucket, waf, waf_outputs, secret_header, certificate,
          http_origin, assets_origin_request_policy, cdn, cdn_attr,
          cfn_outputs, a_record, deps, provisioned, cf_ret

cf_vars == <<cf_pc, cf_args, context, env_name, stack_name, region,
             access_logs_bucket, waf, waf_outputs, secret_header, certificate,
             http_origin, assets_origin_request_policy, cdn, cdn_attr,
             cfn_outputs, a_record, deps, provisioned, cf_ret>>

vars == <<es_vars, cf_vars>>

\* Inputs
EnvNames == Strings({"e"}, MaxEnvNameLen)
\* env_context with and without the env_name key
EnvContexts == {<<>>} \cup {<< <<"env_name", e>> >> : e \in EnvNames}
StackNames == {<<"s">>, <<"s", "-", "t">>}
Domains == Strings({"a", "b", "."}, MaxDomainLen)
OriginDomains == {<<"o">>}
HostedZones == {"Z1", "Z2"}
\* The region of the env keyword argument of Stack: absent, or one value.
RegionArgs == {<<>>} \cup {<<r>> : r \in {"eu-west-1", "us-east-1"}}

\* d[key] of a dict; the caller checks HasKey first.
HasKey(d, key) == \E i \in 1..Len(d) : d[i][1] = key
Get(d, key) == d[CHOOSE i \in 1..Len(d) : d[i][1] = key][2]

\* A token: the value of an attribute of another construct, resolved at
\* deployment.
Token(id, attr) == [ref |-> id, attr |-> attr]

\* SECRET_HEADER_NAME = "X-Secret-CF-ALB-Header"
SECRET_HEADER_NAME == "X-Secret-CF-ALB-Header"

\* us_east_environment = Environment(region="us-east-1")
eu_west_environment == [region |-> "eu-west-1"]
us_east_environment == [region |-> "us-east-1"]

\* The params dict literal of the WafStack call.
WafParams(bucket) ==
    [ActivateAWSManagedRulesParam |-> "True",
     ActivateSqlInjectionProtectionParam |-> "True",
     ActivateCrossSiteScriptingProtectionParam |-> "True",
     ActivateHttpFloodProtectionParam |-> "True",
     ActivateScannersProbesProtectionParam |-> "True",
     ActivateReputationListsProtectionParam |-> "True",
     ActivateBadBotProtectionParam |-> "False",
     AppAccessLogBucket |-> bucket.bucket_name]

\* self.secret_header = f"{self.env_name}-{self.stack_name}"
SecretHeaderStackFirst(env, stack) == stack \o <<"-">> \o env
SecretHeaderFormat(env, stack) == env \o <<"-">> \o stack

\* secretHeaderValue()
secretHeaderValue(self_secret_header) == self_secret_header

\* secretHeader()
secretHeader(self_secret_header) ==
    << <<SECRET_HEADER_NAME, self_secret_header>> >>

\* cloudfront.GeoRestriction.allowlist("GB", "JE", "GG")
GeoRestrictionNoGuernsey ==
    [restriction_type |-> "whitelist", locations |-> <<"GB", "JE">>]
GeoRestriction ==
    [restriction_type |-> "whitelist", locations |-> <<"GB", "JE", "GG">>]

\* default_behavior=cloudfront.BehaviorOptions(...)
DefaultBehaviorOptimized(origin) ==
    [origin |-> origin,
     compress |-> TRUE,
     cache_policy |-> "CACHING_OPTIMIZED",
     origin_request_policy |-> "ALL_VIEWER",
     allowed_methods |-> "ALLOW_ALL",
     cached_methods |-> "CACHE_GET_HEAD",
     viewer_protocol_policy |-> "REDIRECT_TO_HTTPS"]
DefaultBehavior(origin) ==
    [origin |-> origin,
     compress |-> TRUE,
     cache_policy |-> "CACHING_DISABLED",
     origin_request_policy |-> "ALL_VIEWER",
     allowed_methods |-> "ALLOW_ALL",
     cached_methods |-> "CACHE_GET_HEAD",
     viewer_protocol_policy |-> "REDIRECT_TO_HTTPS"]

\* The keyword arguments of cdn.add_behavior(path_pattern="/assets/*", ...)
AssetsBehavior(origin, policy) ==
    [origin |-> origin,
     compress |-> TRUE,
     allowed_methods |-> "ALLOW_GET_HEAD",
     cached_methods |-> "CACHE_GET_HEAD",
     cache_policy |-> "CACHING_OPTIMIZED",
     origin_request_policy |-> policy.id,
     viewer_protocol_policy |-> "REDIRECT_TO_HTTPS"]

\* cdn.node.add_dependency(waf): the constructs the distribution is
\* declared to depend on.
CdnNoDependencies(w) == {}
CdnDependencies(w) == {w.id}

\* domain_prefix = domain.split('.')[0]
DomainSuffix(domain) == LET parts == split(domain, ".") IN parts[Len(parts)]
DomainPrefix(domain) == split(domain, ".")[1]

\* The constructs that are deployed as resources.
Resources == {"CloudfrontLogBucket", "WafStack", "Outputs",
              "CloudfrontCertificate", "StaticAssetsOriginRequestPolicy",
              "CdnDistribution", "CloudfrontDNS"}

CFInit ==
    /\ cf_pc = "new"
    /\ cf_args = Null
    /\ context = Null
    /\ env_name = Null
    /\ stack_name = Null
    /\ region = Null
    /\ access_logs_bucket = Null
    /\ waf = Null
    /\ waf_outputs = Null
    /\ secret_header = Null
    /\ certificate = Null
    /\ http_origin = Null
    /\ assets_origin_request_policy = Null
    /\ cdn = Null
    /\ cdn_attr = Null
    /\ cfn_outputs = <<>>
    /\ a_record = Null
    /\ deps = {}
    /\ provisioned = {}
    /\ cf_ret = [fn |-> "none"]

\* super().__init__(scope, construct_id, **kwargs); self.context = ...;
\* self.env_name = self.context['env_name'] (KeyError when the key is absent)
StackInit ==
    /\ cf_pc = "new"
    /\ \E name \in StackNames, zone \in HostedZones, domain \in Domains,
          origin_domain \in OriginDomains, env_context \in EnvContexts,
          region_arg \in RegionArgs :
          /\ cf_args' = [stack_name |-> name, hosted_zone |-> zone,
                         domain |-> domain, origin_domain |-> origin_domain,
                         env_context |-> env_context, region |-> region_arg]
          /\ stack_name' = name
          /\ region' = IF Len(region_arg) = 0 THEN "AWS::Region" ELSE region_arg[1]
          /\ context' = env_context
          /\ IF HasKey(env_context, "env_name")
             THEN /\ env_name' = Get(env_context, "env_name")
                  /\ cf_pc' = "bucket"
             ELSE /\ env_name' = Null
                  /\ cf_pc' = "KeyError"
    /\ UNCHANGED <<access_logs_bucket, waf, waf_outputs, secret_header,
                   certificate, http_origin, assets_origin_request_policy,
                   cdn, cdn_attr, cfn_outputs, a_record, deps, provisioned,
                   cf_ret>>

\* access_logs_bucket = s3.Bucket(self, "CloudfrontLogBucket", ...)
NewBucket ==
    /\ cf_pc = "bucket"
    /\ access_logs_bucket' =
          [id |-> "CloudfrontLogBucket",
           bucket_name |-> Token("CloudfrontLogBucket", "bucket_name"),
           removal_policy |-> "DESTROY",
           lifecycle_rules |-> <<[enabled |-> TRUE, expiration_days |-> 31 * 6]>>]
    /\ cf_pc' = "waf"
    /\ UNCHANGED <<cf_args, context, env_name, stack_name, region, waf,
                   waf_outputs, secret_header, certificate, http_origin,
                   assets_origin_request_policy, cdn, cdn_attr, cfn_outputs,
                   a_record, deps, provisioned, cf_ret>>

\* waf = WafStack(self, "WafStack", log_requests=False, params={...},
\*                env=us_east_environment)
NewWafStack ==
    /\ cf_pc = "waf"
    /\ waf' = [id |-> "WafStack",
               log_requests |-> FALSE,
               params |-> WafParams(access_logs_bucket),
               env |-> us_east_environment]
    /\ deps' = deps \cup {<<"WafStack", access_logs_bucket.bucket_name.ref>>}
    /\ cf_pc' = "outputs"
    /\ UNCHANGED <<cf_args, context, env_name, stack_name, region,
                   access_logs_bucket, waf_outputs, secret_header, certificate,
                   http_origin, assets_origin_request_policy, cdn, cdn_attr,
                   cfn_outputs, a_record, provisioned, cf_ret>>

\* waf_outputs = RemoteOutputs(self, "Outputs", stack=waf): a lookup keyed by
\* the identity of the stack; it declares no dependency on that stack.
NewRemoteOutputs ==
    /\ cf_pc = "outputs"
    /\ waf_outputs' = [id |-> "Outputs", stack |-> waf.id]
    /\ cf_pc' = "secret_header"
    /\ UNCHANGED <<cf_args, context, env_name, stack_name, region,
                   access_logs_bucket, waf, secret_header, certificate,
                   http_origin, assets_origin_request_policy, cdn, cdn_attr,
                   cfn_outputs, a_record, deps, provisioned, cf_ret>>

\* self.secret_header = f"{self.env_name}-{self.stack_name}"
SetSecretHeader ==
    /\ cf_pc = "secret_header"
    /\ secret_header' = SecretHeaderFormat(env_name, stack_name)
    /\ cf_pc' = "certificate"
    /\ UNCHANGED <<cf_args, context, env_name, stack_name, region,
                   access_logs_bucket, waf, waf_outputs, certificate,
                   http_origin, assets_origin_request_policy, cdn, cdn_attr,
                   cfn_outputs, a_record, deps, provisioned, cf_ret>>

\* certificate = acm.DnsValidatedCertificate(self, "CloudfrontCertificate", ...)
NewCertificate ==
    /\ cf_pc = "certificate"
    /\ certificate' = [id |-> "CloudfrontCertificate",
                       domain_name |-> cf_args.domain,
                       region |-> "us-east-1",
                       hosted_zone |-> cf_args.hosted_zone]
    /\ cf_pc' = "http_origin"
    /\ UNCHANGED <<cf_args, context, env_name, stack_name, region,
                   access_logs_bucket, waf, waf_outputs, secret_header,
                   http_origin, assets_origin_request_policy, cdn, cdn_attr,
                   cfn_outputs, a_record, deps, provisioned, cf_ret>>

\* http_origin = origins.HttpOrigin(domain_name=origin_domain,
\*                                  custom_headers=self.secretHeader())
NewHttpOrigin ==
    /\ cf_pc = "http_origin"
    /\ http_origin' = [domain_name |-> cf_args.origin_domain,
                       custom_headers |-> secretHeader(secret_header)]
    /\ cf_pc' = "policy"
    /\ UNCHANGED <<cf_args, context, env_name, stack_name, region,
                   access_logs_bucket, waf, waf_outputs, secret_header,
                   certificate, assets_origin_request_policy, cdn, cdn_attr,
                   cfn_outputs, a_record, deps, provisioned, cf_ret>>

\* assets_origin_request_policy = cloudfront.OriginRequestPolicy(...)
NewOriginRequestPolicy ==
    /\ cf_pc = "policy"
    /\ assets_origin_request_policy' =
          [id |-> "StaticAssetsOriginRequestPolicy",
           header_behavior |-> [behavior |-> "whitelist", headers |-> <<"Host">>],
           cookie_behavior |-> "none",
           query_string_behavior |-> "none"]
    /\ cf_pc' = "cdn"
    /\ UNCHANGED <<cf_args, context, env_name, stack_name, region,
                   access_logs_bucket, waf, waf_outputs, secret_header,
                   certificate, http_origin, cdn, cdn_attr, cfn_outputs,
                   a_record, deps, provisioned, cf_ret>>

\* cdn = cloudfront.Distribution(self, "CdnDistribution", ...)
NewDistribution ==
    /\ cf_pc = "cdn"
    /\ cdn' = [id |-> "CdnDistribution",
               domain_names |-> <<cf_args.domain>>,
               enable_logging |-> TRUE,
               log_bucket |-> access_logs_bucket.id,
               certificate |-> certificate.id,
               web_acl_id |-> Token(waf_outputs.id, "WAFWebACLArn"),
               geo_restriction |-> GeoRestriction,
               default_behavior |-> DefaultBehavior(http_origin),
               additional_behaviors |-> <<>>]
    /\ deps' = deps \cup {<<"CdnDistribution", access_logs_bucket.id>>,
                          <<"CdnDistribution", certificate.id>>,
                          <<"CdnDistribution", waf_outputs.id>>}
    /\ cf_pc' = "add_behavior"
    /\ UNCHANGED <<cf_args, context, env_name, stack_name, region,
                   access_logs_bucket, waf, waf_outputs, secret_header,
                   certificate, http_origin, assets_origin_request_policy,
                   cdn_attr, cfn_outputs, a_record, provisioned, cf_ret>>

\* cdn.add_behavior(path_pattern="/assets/*", ...)
AddBehavior ==
    /\ cf_pc = "add_behavior"
    /\ cdn' = [cdn EXCEPT !.additional_behaviors =
                  Append(@, <<"/assets/*",
                              AssetsBehavior(http_origin,
                                             assets_origin_request_policy)>>)]
    /\ deps' = deps \cup {<<cdn.id, assets_origin_request_policy.id>>}
    /\ cf_pc' = "add_dependency"
    /\ UNCHANGED <<cf_args, context, env_name, stack_name, region,
                   access_logs_bucket, waf, waf_outputs, secret_header,
                   certificate, http_origin, assets_origin_request_policy,
                   cdn_attr, cfn_outputs, a_record, provisioned, cf_ret>>

\* cdn.node.add_dependency(waf); self._cdn = cdn
AddDependency ==
    /\ cf_pc = "add_dependency"
    /\ deps' = deps \cup {<<cdn.id, d>> : d \in CdnDependencies(waf)}
    /\ cdn_attr' = cdn.id
    /\ cf_pc' = "cfn_outputs"
    /\ UNCHANGED <<cf_args, context, env_name, stack_name, region,
                   access_logs_bucket, waf, waf_outputs, secret_header,
                   certificate, http_origin, assets_origin_request_policy,
                   cdn, cfn_outputs, a_record, provisioned, cf_ret>>

\* The three CfnOutput(self, ...) calls.
NewCfnOutputs ==
    /\ cf_pc = "cfn_outputs"
    /\ cfn_outputs' =
          << <<"CloudfrontDistributionId", Token(cdn.id, "distribution_id")>>,
             <<"CloudfrontDistributionDomain",
               Token(cdn.id, "distribution_domain_name")>>,
             <<"SecretHeaderArn", secret_header>> >>
    /\ cf_pc' = "a_record"
    /\ UNCHANGED <<cf_args, context, env_name, stack_name, region,
                   access_logs_bucket, waf, waf_outputs, secret_header,
                   certificate, http_origin, assets_origin_request_policy,
                   cdn, cdn_attr, a_record, deps, provisioned, cf_ret>>

\* domain_prefix = ...; alias = r53_targets.CloudFrontTarget(cdn);
\* r53.ARecord(self, "CloudfrontDNS", ...)
NewARecord ==
    /\ cf_pc = "a_record"
    /\ a_record' = [id |-> "CloudfrontDNS",
                    zone |-> cf_args.hosted_zone,
                    record_name |-> DomainPrefix(cf_args.domain),
                    target |-> [alias |-> "CloudFrontTarget",
                                distribution |-> cdn.id]]
    /\ deps' = deps \cup {<<"CloudfrontDNS", cdn.id>>}
    /\ cf_pc' = "done"
    /\ UNCHANGED <<cf_args, context, env_name, stack_name, region,
                   access_logs_bucket, waf, waf_outputs, secret_header,
                   certificate, http_origin, assets_origin_request_policy,
                   cdn, cdn_attr, cfn_outputs, provisioned, cf_ret>>

\* The three public accessors, called on the constructed stack.
cf_unchanged_by_accessor ==
    UNCHANGED <<cf_pc, cf_args, context, env_name, stack_name, region,
                access_logs_bucket, waf, waf_outputs, secret_header,
                certificate, http_origin, assets_origin_request_policy,
                cdn, cdn_attr, cfn_outputs, a_record, deps, provisioned>>

\* cdn()
CallCdn ==
    /\ cf_pc = "done"
    /\ cf_ret' = [fn |-> "cdn", value |-> cdn_attr]
    /\ cf_unchanged_by_accessor

\* secretHeaderValue()
CallSecretHeaderValue ==
    /\ cf_pc = "done"
    /\ cf_ret' = [fn |-> "secretHeaderValue",
                  value |-> secretHeaderValue(secret_header)]
    /\ cf_unchanged_by_accessor

\* secretHeader()
CallSecretHeader ==
    /\ cf_pc = "done"
    /\ cf_ret' = [fn |-> "secretHeader", value |-> secretHeader(secret_header)]
    /\ cf_unchanged_by_accessor

\* The deployment of the emitted graph: a resource is provisioned once
\* every resource it was declared to depend on is provisioned.
Provision ==
    /\ cf_pc = "done"
    /\ \E r \in Resources \ provisioned :
          /\ \A e \in deps : e[1] = r => e[2] \in provisioned
          /\ provisioned' = provisioned \cup {r}
    /\ UNCHANGED <<cf_pc, cf_args, context, env_name, stack_name, region,
                   access_logs_bucket, waf, waf_outputs, secret_header,
                   certificate, http_origin, assets_origin_request_policy,
                   cdn, cdn_attr, cfn_outputs, a_record, deps, cf_ret>>

\* ------------------------------------------------------------------------
\* Specifications: one per module; the two modules share no state.
\* ------------------------------------------------------------------------
Init == ESInit /\ CFInit

NextES ==
    \/ NewExternalSecretSource /\ UNCHANGED cf_vars
    \/ ExternalSecretInit /\ UNCHANGED cf_vars
    \/ k8s_secret_name /\ UNCHANGED cf_vars

SpecES == Init /\ [][NextES]_vars

NextCF ==
    \/ StackInit /\ UNCHANGED es_vars
    \/ NewBucket /\ UNCHANGED es_vars
    \/ NewWafStack /\ UNCHANGED es_vars
    \/ NewRemoteOutputs /\ UNCHANGED es_vars
    \/ SetSecretHeader /\ UNCHANGED es_vars
    \/ NewCertificate /\ UNCHANGED es_vars
    \/ NewHttpOrigin /\ UNCHANGED es_vars
    \/ NewOriginRequestPolicy /\ UNCHANGED es_vars
    \/ NewDistribution /\ UNCHANGED es_vars
    \/ AddBehavior /\ UNCHANGED es_vars
    \/ AddDependency /\ UNCHANGED es_vars
    \/ NewCfnOutputs /\ UNCHANGED es_vars
    \/ NewARecord /\ UNCHANGED es_vars
    \/ CallCdn /\ UNCHANGED es_vars
    \/ CallSecretHeaderValue /\ UNCHANGED es_vars
    \/ CallSecretHeader /\ UNCHANGED es_vars
    \/ Provision /\ UNCHANGED es_vars

SpecCF == Init /\ [][NextCF]_vars

\* ------------------------------------------------------------------------
\* Properties of external_secret.py (checked under SpecES)
\* ------------------------------------------------------------------------
\* Positions of the dots of a str.
Dots(s) == {i \in 1..Len(s) : s[i] = "."}

\* The part of s after its last dot; s itself when it has none.
AfterLastDot(s) ==
    IF Dots(s) = {} THEN s
    ELSE LET last == CHOOSE i \in Dots(s) : \A j \in Dots(s) : j <= i
         IN  SubSeq(s, last + 1, Len(s))

\* The part of s before its first dot; s itself when it has none.
BeforeFirstDot(s) ==
    IF Dots(s) = {} THEN s
    ELSE LET first == CHOOSE i \in Dots(s) : \A j \in Dots(s) : i <= j
         IN  SubSeq(s, 1, first - 1)

\* C1: for every mapping (sourceKey -> target) the emitted data entry's
\* secretKey is target verbatim when target is non-empty, and otherwise
\* the part of sourceKey after its last '.' (all of sourceKey when it has
\* no '.').
C1_SecretKeyFallback ==
    es_pc = "built" =>
        \A i \in 1..Len(secret_source.secret_mappings) :
            LET k == secret_source.secret_mappings[i][1]
                v == secret_source.secret_mappings[i][2]
            IN  resource.spec.data[i].secret_key =
                    IF v # <<>> THEN v ELSE AfterLastDot(k)

\* The mappings {".K": "", "KK": "T.U"} were lowered to the secret keys
\* "K" and "T.U".
C1_Witness ==
    /\ es_pc = "built"
    /\ secret_source.secret_mappings =
          << << <<".", "K">>, <<>> >>, << <<"K", "K">>, <<"T", ".", "U">> >> >>
    /\ resource.spec.data[1].secret_key = <<"K">>
    /\ resource.spec.data[2].secret_key = <<"T", ".", "U">>

\* C2: the data list has exactly one entry per mapping, and in every entry
\* remoteRef.key is the request's source_secret and remoteRef.property is
\* that mapping's source key unchanged.
C2_RemoteRefPassThrough ==
    es_pc = "built" =>
        /\ Len(resource.spec.data) = Len(secret_source.secret_mappings)
        /\ \A i \in 1..Len(secret_source.secret_mappings) :
              /\ resource.spec.data[i].remote_ref.key = secret_source.source_secret
              /\ resource.spec.data[i].remote_ref.property =
                    secret_source.secret_mappings[i][1]

\* Two mappings, one of them with a nested source key, were lowered.
C2_Witness ==
    /\ es_pc = "built"
    /\ Len(resource.spec.data) = 2
    /\ Dots(resource.spec.data[1].remote_ref.property) # {}
    /\ resource.spec.data[1].remote_ref.key = <<"s">>

C4_RefreshInterval ==
    es_pc = "built" =>
        resource.spec.refresh_interval =
            IF es_args.refresh_interval = <<>>
            THEN <<"1", "h">>
            ELSE es_args.refresh_interval[1]

\* A construct was built from a source that gave no refresh_interval.
C4_Witness ==
    /\ es_pc = "built"
    /\ es_args.refresh_interval = <<>>
    /\ resource.spec.refresh_interval = <<"1", "h">>

\* ------------------------------------------------------------------------
\* Properties of protected_cloudfront.py (checked under SpecCF)
\* ------------------------------------------------------------------------
\* "{env_name}-{stack_name}" of the constructor's arguments.
ExpectedSecretHeader ==
    Get(cf_args.env_context, "env_name") \o <<"-">> \o cf_args.stack_name

\* C5: after construction the secret header value is
\* "{env_name}-{stack_name}", and that one value is the secret-header
\* output, the X-Secret-CF-ALB-Header custom header of the HTTP origin,
\* the result of secretHeaderValue() and the value of the one-entry
\* mapping returned by secretHeader().
C5_SecretHeaderEverywhere ==
    cf_pc = "done" =>
        /\ secret_header = ExpectedSecretHeader
        /\ Get(cfn_outputs, "SecretHeaderArn") = ExpectedSecretHeader
        /\ cdn.default_behavior.origin.custom_headers =
              << <<"X-Secret-CF-ALB-Header", ExpectedSecretHeader>> >>
        /\ cdn.additional_behaviors[1][2].origin.custom_headers =
              << <<"X-Secret-CF-ALB-Header", ExpectedSecretHeader>> >>
        /\ cf_ret.fn = "secretHeaderValue" => cf_ret.value = ExpectedSecretHeader
        /\ cf_ret.fn = "secretHeader" =>
              /\ Len(cf_ret.value) = 1
              /\ cf_ret.value[1][2] = ExpectedSecretHeader

\* secretHeader() was called on a stack built with env_name "e" and stack
\* name "s-t".
C5_Witness ==
    /\ cf_pc = "done"
    /\ cf_ret.fn = "secretHeader"
    /\ cf_args.env_context = << <<"env_name", <<"e">> >> >>
    /\ cf_args.stack_name = <<"s", "-", "t">>
    /\ secret_header = <<"e", "-", "s", "-", "t">>

\* C6: the default behavior uses CACHING_DISABLED, the '/assets/*'
\* behavior uses CACHING_OPTIMIZED, and '/assets/*' is the only
\* additional behavior.
C6_CachePolicies ==
    /\ cdn # Null => cdn.default_behavior.cache_policy = "CACHING_DISABLED"
    /\ cf_pc = "done" =>
          /\ Len(cdn.additional_behaviors) = 1
          /\ cdn.additional_behaviors[1][1] = "/assets/*"
          /\ cdn.additional_behaviors[1][2].cache_policy = "CACHING_OPTIMIZED"

\* The stack is constructed and its distribution has both behaviors.
C6_Witness ==
    /\ cf_pc = "done"
    /\ cdn.default_behavior.cache_policy = "CACHING_DISABLED"
    /\ Len(cdn.additional_behaviors) = 1

\* C7: the geo-restriction is an allowlist of exactly GB, JE and GG,
\* whatever the constructor's arguments.
C7_GeoAllowlist ==
    cdn # Null =>
        /\ cdn.geo_restriction.restriction_type = "whitelist"
        /\ {cdn.geo_restriction.locations[i] :
               i \in 1..Len(cdn.geo_restriction.locations)} = {"GB", "JE", "GG"}

\* A distribution was built for a stack in us-east-1 under hosted zone Z2.
C7_Witness ==
    /\ cf_pc = "done"
    /\ cdn.geo_restriction.restriction_type = "whitelist"
    /\ cf_args.region = <<"us-east-1">>
    /\ cf_args.hosted_zone = "Z2"

\* C8: the alias record is in the supplied hosted zone, its name is the
\* first '.'-separated label of domain (all of domain when it has no '.'),
\* and its target is the distribution of the same stack.
C8_RecordName ==
    cf_pc = "done" =>
        /\ a_record.zone = cf_args.hosted_zone
        /\ a_record.record_name = BeforeFirstDot(cf_args.domain)
        /\ a_record.target.distribution = cdn.id
        /\ a_record.target.distribution = cdn_attr

\* The record of the domain "a.b" is named "a".
C8_Witness ==
    /\ cf_pc = "done"
    /\ cf_args.domain = <<"a", ".", "b">>
    /\ a_record.record_name = <<"a">>

\* C9: the graph has a dependency edge from the distribution to the WAF
\* sub-stack, so in every provisioning order that respects the edges the
\* WAF stack is provisioned before the distribution; and the
\* distribution's web ACL id is the WAFWebACLArn output looked up from the
\* WAF stack.
C9_WafBeforeCdn ==
    /\ cf_pc = "done" =>
          /\ <<"CdnDistribution", "WafStack">> \in deps
          /\ cdn.web_acl_id = [ref |-> "Outputs", attr |-> "WAFWebACLArn"]
          /\ waf_outputs.stack = "WafStack"
    /\ "CdnDistribution" \in provisioned => "WafStack" \in provisioned

\* The distribution has been provisioned.
C9_Witness ==
    /\ cf_pc = "done"
    /\ "CdnDistribution" \in provisioned

\* The parameters of the WAF sub-stack: the log bucket's name, bad-bot
\* protection off, every other Activate* parameter on.
WafParamsAsClaimed ==
    /\ waf.params.AppAccessLogBucket = access_logs_bucket.bucket_name
    /\ waf.params.AppAccessLogBucket.ref = "CloudfrontLogBucket"
    /\ \A p \in DOMAIN waf.params \ {"AppAccessLogBucket"} :
          waf.params[p] = IF p = "ActivateBadBotProtectionParam"
                          THEN "False" ELSE "True"

\* C10 as stated: for every region of the parent stack the WAF sub-stack
\* is in us-east-1 and that region differs from the parent's region; the
\* parameters are as claimed.
C10_Original ==
    cf_pc = "done" =>
        /\ waf.env.region = "us-east-1"
        /\ waf.env.region # region
        /\ WafParamsAsClaimed

\* C10, amended: the WAF sub-stack is in us-east-1 for every region of the
\* parent stack, and that region differs from the parent's region whenever
\* the parent is given an explicit region other than us-east-1; the
\* parameters are as claimed.
C10_WafRegionAndParams ==
    cf_pc = "done" =>
        /\ waf.env.region = "us-east-1"
        /\ (cf_args.region # <<>> /\ cf_args.region # <<"us-east-1">>)
              => waf.env.region # region
        /\ WafParamsAsClaimed

\* A stack in eu-west-1 was constructed.
C10_Witness ==
    /\ cf_pc = "done"
    /\ region = "eu-west-1"
    /\ waf.env.region = "us-east-1"
====
